---- MODULE Spec2Model ----
(***************************************************************************)
(* Signal Desk (core-perigee): the Signal / Insight lifecycle state        *)
(* machines and the webhook orchestration layer.                           *)
(*                                                                         *)
(* The persistent store (Prisma) is the only shared state.  Every route    *)
(* handler is a request that runs in a slot of `reqs`; it is cut into      *)
(* steps at its outbound webhook call, the one place where a handler       *)
(* waits for the external engine.  `resp` holds the response of the        *)
(* request that completed in the step just taken (NoReq otherwise).        *)
(***************************************************************************)
EXTENDS Integers, Sequences, FiniteSets, TLC

\* ------------------------------------------------------------------ bounds
MaxSignals == 2
MaxThoughts == 1
MaxInsights == 1
MaxInflight == 2
MaxClockTicks == 2

\* ------------------------------------------------------- program constants
None == "none"

SIGNAL_STATUS ==
    [UNREAD |-> "unread", PROCESSING |-> "processing", REVIEWED |-> "reviewed",
     PROCESSED |-> "processed", ARCHIVED |-> "archived"]

\* cluster/route.ts writes SIGNAL_STATUS.CLUSTERED, documented in that file as
\* the status "clustered".
CLUSTERED == "clustered"

\* The six statuses of the Signal state machine.
SignalStatuses ==
    {SIGNAL_STATUS.UNREAD, SIGNAL_STATUS.PROCESSING, SIGNAL_STATUS.REVIEWED,
     SIGNAL_STATUS.PROCESSED, CLUSTERED, SIGNAL_STATUS.ARCHIVED}

\* The names the dispatcher looks webhooks up by.  triggerFormat and
\* triggerCluster look up "format" and "cluster".
WEBHOOK_NAMES ==
    [INGEST |-> "ingest", GENERATE |-> "generate", PUBLISH |-> "publish"]
FORMAT_JOB == "format"
CLUSTER_JOB == "cluster"

JobNames ==
    {WEBHOOK_NAMES.INGEST, CLUSTER_JOB, WEBHOOK_NAMES.GENERATE, FORMAT_JOB,
     WEBHOOK_NAMES.PUBLISH}

\* The deduplication window of the receive route: 10 * 60 * 1000 ms.
DedupWindowMs == 10 * 60 * 1000

\* One clock tick is one deduplication window.
TickMs == DedupWindowMs

\* ------------------------------------------------------------ input domains
\* A status string a client may send: the six statuses and one that is none
\* of them.
StatusInputs == SignalStatuses \cup {"bogus"}
Urls == {"u1", "u2"}
SignalIdInputs == 1..(MaxSignals + 1)

\* A normalized receive payload (N8nResponse plus the signalId the route reads).
Payloads ==
    [summary : {None, "s1"}, key_insights : {None, "k1"}, title : {None, "t1"},
     content : {None, "c1"}, sourceUrl : {None} \cup Urls,
     signalId : {0} \cup SignalIdInputs]

VARIABLES
    signals,    \* Signal table: sequence of rows, the id is the index
    thoughts,   \* Thought table: sequence of rows [signalId, insightId]
    insights,   \* Insight table: sequence of rows, the id is the index
    webhooks,   \* WebhookConfig table: set of rows [name, url]
    now,        \* Date.now(), in ms
    reqs,       \* the requests in flight, one per slot
    resp        \* the request that completed in the last step, with its code

vars == <<signals, thoughts, insights, webhooks, now, reqs, resp>>

\* ------------------------------------------------------------------ helpers
\* The persistent store as a whole.
Store ==
    [signals |-> signals, thoughts |-> thoughts, insights |-> insights,
     webhooks |-> webhooks]

NoStore ==
    [signals |-> <<>>, thoughts |-> <<>>, insights |-> <<>>,
     webhooks |-> {}]

NoReq ==
    [op |-> "idle", pc |-> "idle", id |-> 0, ids |-> {}, res |-> "none",
     sent |-> FALSE, code |-> 0, data |-> None, reply |-> <<>>,
     pre |-> NoStore, at |-> 0]

Slots == 1..MaxInflight

SignalIds == DOMAIN signals

\* The request in slot s takes a step that does not complete it.
Continue(s, r) ==
    /\ reqs' = [reqs EXCEPT ![s] = r]
    /\ resp' = NoReq

\* The request in slot s completes with HTTP status `code`.
Respond(s, r, code) ==
    /\ reqs' = [reqs EXCEPT ![s] = NoReq]
    /\ resp' = [r EXCEPT !.pc = "done", !.code = code]

\* ------------------------------------------------------ outbound dispatcher
\* findUnique({ where: { name } }) on the table `table`, then config?.url ?? null.
UrlIn(table, name) ==
    LET rows == {w \in table : w.name = name} IN
    IF rows = {} THEN None ELSE (CHOOSE w \in rows : TRUE).url

\* A lookup that falls back to a default endpoint when nothing is registered.
getWebhookUrl_Default(name) ==
    IF UrlIn(webhooks, name) = None THEN "https://n8n.example/hook"
    ELSE UrlIn(webhooks, name)

\* getWebhookUrl: the registered URL or None.
getWebhookUrl(name) == UrlIn(webhooks, name)

\* What the fetch of a configured webhook can end in.
FetchOutcomes == {"ok", "http_error", "network_error"}

\* The results a trigger* call can return for the job `name`: not configured
\* without any HTTP request, otherwise one request and its outcome.
TriggerResults(name) ==
    IF getWebhookUrl(name) = None
    THEN {[res |-> "not_configured", sent |-> FALSE]}
    ELSE {[res |-> o, sent |-> TRUE] : o \in FetchOutcomes}

\* WebhookResult.success
Success(res) == res = "ok"

\* The code a route answers with once its trigger has returned: 502 on a
\* failed dispatch.
DispatchCode(res) == IF Success(res) THEN 200 ELSE 502

\* -------------------------------------------------------------- Signal rows
\* formatN8nDataToMarkdown: the sections of the fields that are present, in
\* the fixed order Summary, Key Insights.
formatN8nDataToMarkdown(data) ==
    SelectSeq(<<data.summary, data.key_insights>>, LAMBDA x : x # None)

\* content: data.content || formatN8nDataToMarkdown(data)
ContentOf(data) ==
    IF data.content # None THEN data.content ELSE formatN8nDataToMarkdown(data)

NewSignal(status, sourceUrl, content) ==
    [status |-> status, sourceUrl |-> sourceUrl, createdAt |-> now,
     content |-> content]

\* A request record.  The routes whose contract is about what they leave
\* untouched also note the store as it is when they begin.
NewRequest(op) == [NoReq EXCEPT !.op = op]
NewTracked(op) == [NoReq EXCEPT !.op = op, !.pre = Store, !.at = now]

\* ------------------------------------------------------ PATCH /api/signals
\* Validation, the optional thought, and the status update.  A thought or an
\* update that names no stored Signal throws and the handler answers 500.
SignalsPATCH_Update(s, id, status, thought) ==
    /\ reqs[s].pc = "idle"
    /\ LET r == [NewTracked("review") EXCEPT !.id = id] IN
       IF id = 0 \/ status = None
       THEN /\ Respond(s, r, 400)
            /\ UNCHANGED <<signals, thoughts>>
       ELSE IF id \notin SignalIds
       THEN /\ Respond(s, r, 500)
            /\ UNCHANGED <<signals, thoughts>>
       ELSE /\ IF thought
               THEN /\ Len(thoughts) < MaxThoughts
                    /\ thoughts' = Append(thoughts, [signalId |-> id, insightId |-> 0])
               ELSE UNCHANGED thoughts
            /\ signals' = [signals EXCEPT ![id].status = status]
            /\ IF status = SIGNAL_STATUS.REVIEWED
               THEN Continue(s, [r EXCEPT !.pc = "generate"])
               ELSE Respond(s, r, 200)
    /\ UNCHANGED <<insights, webhooks, now>>

\* await triggerGenerate([structuredSignal]): the result is not looked at.
SignalsPATCH_Generate(s) ==
    /\ reqs[s].op = "review" /\ reqs[s].pc = "generate"
    /\ \E t \in TriggerResults(WEBHOOK_NAMES.GENERATE) :
          Continue(s, [reqs[s] EXCEPT !.pc = "processed", !.res = t.res, !.sent = t.sent])
    /\ UNCHANGED <<signals, thoughts, insights, webhooks, now>>

\* The status the review action stores once triggerGenerate has returned:
\* triggerGenerate reports every failure in its result and never throws, so
\* the catch block is not entered and the update to PROCESSED always runs.
StatusAfterGenerate(res) == SIGNAL_STATUS.PROCESSED

SignalsPATCH_Processed(s) ==
    /\ reqs[s].op = "review" /\ reqs[s].pc = "processed"
    /\ signals' = [signals EXCEPT ![reqs[s].id].status = StatusAfterGenerate(reqs[s].res)]
    /\ Respond(s, reqs[s], 200)
    /\ UNCHANGED <<thoughts, insights, webhooks, now>>

\* ------------------------------------------------- PATCH /api/signals/[id]
\* data: body -- the body is written to the row as it is.
PatchBodies == [status : {None} \cup StatusInputs, sourceUrl : {None} \cup Urls]

SignalByIdPATCH(s, id, body) ==
    /\ reqs[s].pc = "idle"
    /\ LET r == [NewRequest("patch") EXCEPT !.id = id] IN
       IF id \notin SignalIds
       THEN /\ Respond(s, r, 500)
            /\ UNCHANGED signals
       ELSE /\ signals' = [signals EXCEPT ![id] =
                  [@ EXCEPT !.status = IF body.status = None THEN @ ELSE body.status,
                            !.sourceUrl = IF body.sourceUrl = None THEN @ ELSE body.sourceUrl]]
            /\ Respond(s, r, 200)
    /\ UNCHANGED <<thoughts, insights, webhooks, now>>

\* --------------------------------------------------------- POST /api/cluster
\* A cluster query that also gathers the unread Signals.
ClusterFindMany_Unread(sigs) ==
    {i \in DOMAIN sigs :
        sigs[i].status \in {SIGNAL_STATUS.REVIEWED, SIGNAL_STATUS.UNREAD}}

\* A cluster query that leaves out the Signals another cluster request in
\* flight has already read.
ClusterFindMany_Claimed(sigs) ==
    {i \in DOMAIN sigs :
        /\ sigs[i].status = SIGNAL_STATUS.REVIEWED
        /\ \A s \in Slots : ~(reqs[s].op = "cluster" /\ i \in reqs[s].ids)}

\* findMany({ where: { status: SIGNAL_STATUS.REVIEWED } })
ClusterFindMany(sigs) ==
    {i \in DOMAIN sigs : sigs[i].status = SIGNAL_STATUS.REVIEWED}

ClusterPOST_FindMany(s) ==
    /\ reqs[s].pc = "idle"
    /\ LET found == ClusterFindMany(signals)
           r == [NewTracked("cluster") EXCEPT !.ids = found] IN
       IF found = {}
       THEN Respond(s, r, 200)
       ELSE Continue(s, [r EXCEPT !.pc = "trigger"])
    /\ UNCHANGED <<signals, thoughts, insights, webhooks, now>>

ClusterPOST_Trigger(s) ==
    /\ reqs[s].op = "cluster" /\ reqs[s].pc = "trigger"
    /\ \E t \in TriggerResults(CLUSTER_JOB) :
          Continue(s, [reqs[s] EXCEPT !.pc = "result", !.res = t.res, !.sent = t.sent])
    /\ UNCHANGED <<signals, thoughts, insights, webhooks, now>>

\* A batch update without its where clause.
ClusterUpdateMany_NoWhere(sigs, ids) ==
    [i \in DOMAIN sigs |-> [sigs[i] EXCEPT !.status = CLUSTERED]]

\* updateMany({ where: { id: { in: ids } }, data: { status: CLUSTERED } })
ClusterUpdateMany(sigs, ids) ==
    [i \in DOMAIN sigs |->
        IF i \in ids THEN [sigs[i] EXCEPT !.status = CLUSTERED] ELSE sigs[i]]

\* A route that marks the Signals whatever the trigger returned.
ClusterStore_Unchecked(sigs, ids, res) == ClusterUpdateMany(sigs, ids)

\* The store after the trigger returned: untouched unless it succeeded.
ClusterStore(sigs, ids, res) ==
    IF Success(res) THEN ClusterUpdateMany(sigs, ids) ELSE sigs

ClusterPOST_UpdateMany(s) ==
    /\ reqs[s].op = "cluster" /\ reqs[s].pc = "result"
    /\ signals' = ClusterStore(signals, reqs[s].ids, reqs[s].res)
    /\ Respond(s, reqs[s], DispatchCode(reqs[s].res))
    /\ UNCHANGED <<thoughts, insights, webhooks, now>>

\* ----------------------------------------------- POST /api/insights/generate
GeneratePOST_FindMany(s, signalIds) ==
    /\ reqs[s].pc = "idle"
    /\ LET found == signalIds \cap SignalIds
           r == [NewTracked("generate") EXCEPT !.ids = found] IN
       IF signalIds = {} THEN Respond(s, r, 400)
       ELSE IF found = {} THEN Respond(s, r, 404)
       ELSE Continue(s, [r EXCEPT !.pc = "trigger"])
    /\ UNCHANGED <<signals, thoughts, insights, webhooks, now>>

GeneratePOST_Trigger(s) ==
    /\ reqs[s].op = "generate" /\ reqs[s].pc = "trigger"
    /\ \E t \in TriggerResults(WEBHOOK_NAMES.GENERATE) :
          Continue(s, [reqs[s] EXCEPT !.pc = "result", !.res = t.res, !.sent = t.sent])
    /\ UNCHANGED <<signals, thoughts, insights, webhooks, now>>

GeneratePOST_Finish(s) ==
    /\ reqs[s].op = "generate" /\ reqs[s].pc = "result"
    /\ Respond(s, reqs[s], DispatchCode(reqs[s].res))
    /\ UNCHANGED <<signals, thoughts, insights, webhooks, now>>

\* ------------------------------------------------- POST /api/signals/receive
\* A deduplication query without the createdAt window.
DedupMatches_NoWindow(data) ==
    {i \in SignalIds :
        /\ signals[i].status = "processing"
        /\ signals[i].sourceUrl = data.sourceUrl}

\* The placeholders the deduplication query matches: status processing,
\* createdAt >= Date.now() - 10 min, and the payload's sourceUrl.
DedupMatches(data) ==
    {i \in SignalIds :
        /\ signals[i].status = "processing"
        /\ signals[i].createdAt >= now - DedupWindowMs
        /\ signals[i].sourceUrl = data.sourceUrl}

\* findFirst({ where, orderBy: { createdAt: 'desc' } }): a newest match.
DedupFindFirst(data) ==
    {i \in DedupMatches(data) :
        \A j \in DedupMatches(data) : signals[j].createdAt <= signals[i].createdAt}

\* A validation that also lets a payload with only a content field through.
HasEssentialData_OrContent(data) ==
    \/ data.summary # None \/ data.key_insights # None \/ data.title # None
    \/ data.content # None

\* The payload carries at least one of summary, key_insights, title.
HasEssentialData(data) ==
    data.summary # None \/ data.key_insights # None \/ data.title # None

\* The ids the route may resolve the payload to (0: none, create a Signal).
ResolveSignalId(data) ==
    IF data.signalId # 0 THEN {data.signalId}
    ELSE IF data.sourceUrl # None /\ DedupFindFirst(data) # {} THEN DedupFindFirst(data)
    ELSE {0}

ReceivePOST_Resolve(s, data) ==
    /\ reqs[s].pc = "idle"
    /\ LET r == [NewTracked("receive") EXCEPT !.data = data] IN
       IF ~HasEssentialData(data)
       THEN Respond(s, r, 400)
       ELSE \E id \in ResolveSignalId(data) :
               Continue(s, [r EXCEPT !.pc = "write", !.id = id])
    /\ UNCHANGED <<signals, thoughts, insights, webhooks, now>>

ReceivePOST_Write(s) ==
    /\ reqs[s].op = "receive" /\ reqs[s].pc = "write"
    /\ LET r == reqs[s]
           data == r.data IN
       IF r.id # 0
       THEN IF r.id \notin SignalIds
            THEN /\ Respond(s, r, 500)
                 /\ UNCHANGED signals
            ELSE /\ signals' = [signals EXCEPT ![r.id] =
                       [@ EXCEPT !.content = ContentOf(data),
                                 !.status = SIGNAL_STATUS.UNREAD]]
                 /\ Respond(s, r, 201)
       ELSE /\ Len(signals) < MaxSignals
            /\ signals' = Append(signals,
                   NewSignal(SIGNAL_STATUS.UNREAD, data.sourceUrl, ContentOf(data)))
            /\ Respond(s, [r EXCEPT !.ids = {Len(signals) + 1}], 201)
    /\ UNCHANGED <<thoughts, insights, webhooks, now>>

\* ------------------------------------------------ reply bodies, normalization
\* A JSON object is a function from its keys; the fields of a payload are
\* a and b, and the wrapper key is output.  A body is an object or an array
\* of objects.
JsonFields == {"a", "b"}
FlatObjects == UNION {[K -> {1, 2}] : K \in SUBSET JsonFields}

\* { ...outer, output: out }
WithOutput(outer, out) ==
    [k \in DOMAIN outer \cup {"output"} |-> IF k = "output" THEN out ELSE outer[k]]

JsonObjects == FlatObjects \cup {WithOutput(o, out) : o \in FlatObjects, out \in FlatObjects}

ObjectBody(o) == [shape |-> "object", obj |-> o, items |-> <<>>]
ArrayBody(items) == [shape |-> "array", obj |-> <<>>, items |-> items]

\* The three reply shapes: a flat object, an object with an object-valued
\* output field, an array of zero or one such element.
JsonBodies ==
    {ObjectBody(o) : o \in JsonObjects}
        \cup {ArrayBody(<<>>)} \cup {ArrayBody(<<o>>) : o \in JsonObjects}

\* The object spread { ...outer, ...inner }: every key of both, inner winning.
Spread(outer, inner) ==
    [k \in DOMAIN outer \cup DOMAIN inner |->
        IF k \in DOMAIN inner THEN inner[k] ELSE outer[k]]

\* extractN8nData of the receive route.  A non-empty array gives
\* firstItem.output || firstItem; an object with an object-valued output
\* gives { ...obj, ...obj.output }; anything else is returned as it is (the
\* empty array included, which carries no field, like the empty record).
extractN8nData(body) ==
    IF body.shape = "array" /\ Len(body.items) > 0
    THEN LET firstItem == body.items[1] IN
         IF "output" \in DOMAIN firstItem THEN firstItem["output"] ELSE firstItem
    ELSE IF body.shape = "array"
    THEN body.items
    ELSE IF "output" \in DOMAIN body.obj
    THEN Spread(body.obj, body.obj["output"])
    ELSE body.obj

\* One call of extractN8nData, as the first statement of the receive route.
ExtractN8nData_Call(s, body) ==
    /\ reqs[s].pc = "idle"
    /\ Respond(s, [NewRequest("extract") EXCEPT
                      !.data = [body |-> body, out |-> extractN8nData(body)]], 0)
    /\ UNCHANGED <<signals, thoughts, insights, webhooks, now>>

\* ----------------------------------------------------------- POST /api/ingest
IngestBodies == [inputType : {None, "text", "url"}, content : {None, "c1"},
                 url : {None} \cup Urls]

\* The data a successful ingest dispatch can carry: <<>> for no data (empty or
\* unparseable body), or <<p>> for a record p of the engine's fields.
IngestReplies ==
    {<<>>} \cup {<<p>> : p \in {q \in Payloads :
                                q.signalId = 0 /\ q.sourceUrl = None /\ q.title = None}}

IngestBodyValid(body) ==
    /\ body.inputType # None
    /\ (body.inputType = "text" => body.content # None)
    /\ (body.inputType = "url" => body.url # None)

IngestPOST_Validate(s, body) ==
    /\ reqs[s].pc = "idle"
    /\ LET r == [NewRequest("ingest") EXCEPT !.data = body] IN
       IF ~IngestBodyValid(body)
       THEN Respond(s, r, 400)
       ELSE Continue(s, [r EXCEPT !.pc = "trigger"])
    /\ UNCHANGED <<signals, thoughts, insights, webhooks, now>>

IngestPOST_Trigger(s) ==
    /\ reqs[s].op = "ingest" /\ reqs[s].pc = "trigger"
    /\ \E t \in TriggerResults(WEBHOOK_NAMES.INGEST) :
       \E reply \in (IF Success(t.res) THEN IngestReplies ELSE {<<>>}) :
          Continue(s, [reqs[s] EXCEPT !.pc = "result", !.res = t.res, !.sent = t.sent,
                                      !.data = [body |-> @, reply |-> reply]])
    /\ UNCHANGED <<signals, thoughts, insights, webhooks, now>>

IngestPOST_Store(s) ==
    /\ reqs[s].op = "ingest" /\ reqs[s].pc = "result"
    /\ LET r == reqs[s]
           body == r.data.body
           reply == r.data.reply IN
       IF ~Success(r.res)
       THEN /\ Respond(s, r, 502)
            /\ UNCHANGED signals
       ELSE IF reply = <<>>
       THEN /\ Respond(s, r, 200)
            /\ UNCHANGED signals
       ELSE /\ Len(signals) < MaxSignals
            /\ signals' = Append(signals,
                   NewSignal(SIGNAL_STATUS.UNREAD, body.url, ContentOf(reply[1])))
            /\ Respond(s, [r EXCEPT !.ids = {Len(signals) + 1}], 201)
    /\ UNCHANGED <<thoughts, insights, webhooks, now>>

\* --------------------------------------------------- /api/settings/webhooks
EngineUrl == "https://n8n.example/hook"
ValidUrls == {EngineUrl, "https://n8n.example/other"}
UrlInputs == {None, "hook"} \cup ValidUrls

\* A validation that accepts every URL string.
IsWellFormedUrl_Any(url) == TRUE

\* new URL(url) does not throw.
IsWellFormedUrl(url) == url \in ValidUrls

\* upsert({ where: { name }, update: { url }, create: { name, url } })
Upsert(table, name, url) ==
    {w \in table : w.name # name} \cup {[name |-> name, url |-> url]}

SettingsWebhooksPOST(s, name, url) ==
    /\ reqs[s].pc = "idle"
    /\ LET r == [NewTracked("webhook_upsert") EXCEPT
                    !.data = [name |-> name, url |-> url]] IN
       IF name = None \/ url = None \/ ~IsWellFormedUrl(url)
       THEN /\ Respond(s, r, 400)
            /\ UNCHANGED webhooks
       ELSE /\ webhooks' = Upsert(webhooks, name, url)
            /\ Respond(s, r, 200)
    /\ UNCHANGED <<signals, thoughts, insights, now>>

SettingsWebhooksDELETE(s, name) ==
    /\ reqs[s].pc = "idle"
    /\ LET r == [NewTracked("webhook_delete") EXCEPT !.data = [name |-> name]] IN
       IF name = None
       THEN /\ Respond(s, r, 400)
            /\ UNCHANGED webhooks
       ELSE IF \A w \in webhooks : w.name # name
       THEN /\ Respond(s, r, 500)
            /\ UNCHANGED webhooks
       ELSE /\ webhooks' = {w \in webhooks : w.name # name}
            /\ Respond(s, r, 200)
    /\ UNCHANGED <<signals, thoughts, insights, now>>

\* ------------------------------------------------------------- Insight rows
\* A field a request body leaves out (undefined), as opposed to null (None).
Absent == "absent"

\* JavaScript truthiness of a string-or-null value.
Truthy(x) == x \notin {None, Absent, ""}

\* The rows that have not been deleted.
InsightIds == {i \in DOMAIN insights : insights[i].live}
InsightIdInputs == 1..(MaxInsights + 1)

\* --------------------------------------------------------- POST /api/insights
\* A new row has no publishedUrl (None) and no publishedAt (<<>>; <<t>> is the
\* time t).
\* thoughts: { connect: thoughtIds }: every listed Thought gets the new row as
\* its insightId; the create throws, and the route answers 500, when one of
\* them does not exist.
InsightsPOST(s, coreInsight, preview, platform, thoughtIds) ==
    /\ reqs[s].pc = "idle"
    /\ LET r == NewRequest("insight_create")
           id == Len(insights) + 1 IN
       IF ~Truthy(coreInsight)
       THEN /\ Respond(s, r, 400)
            /\ UNCHANGED <<insights, thoughts>>
       ELSE IF ~(thoughtIds \subseteq DOMAIN thoughts)
       THEN /\ Respond(s, r, 500)
            /\ UNCHANGED <<insights, thoughts>>
       ELSE /\ Len(insights) < MaxInsights
            /\ insights' = Append(insights,
                  [live |-> TRUE, coreInsight |-> coreInsight, status |-> "draft",
                   preview |-> IF Truthy(preview) THEN preview ELSE coreInsight,
                   previewPlatform |-> IF Truthy(platform) THEN platform ELSE "linkedin",
                   publishedUrl |-> None, publishedAt |-> <<>>])
            /\ thoughts' = [t \in DOMAIN thoughts |->
                              IF t \in thoughtIds
                              THEN [thoughts[t] EXCEPT !.insightId = id]
                              ELSE thoughts[t]]
            /\ Respond(s, [r EXCEPT !.id = id], 201)
    /\ UNCHANGED <<signals, webhooks, now>>

\* -------------------------------------------- PATCH /api/insights, plain update
\* update({ data: { coreInsight, preview } }): a field left out is not written;
\* coreInsight is a required column, so null is refused by the store.
InsightsPATCH_Update(s, id, coreInsight, preview) ==
    /\ reqs[s].pc = "idle"
    /\ LET r == [NewRequest("insight_update") EXCEPT !.id = id] IN
       IF id = 0
       THEN /\ Respond(s, r, 400)
            /\ UNCHANGED insights
       ELSE IF id \notin InsightIds \/ coreInsight = None
       THEN /\ Respond(s, r, 500)
            /\ UNCHANGED insights
       ELSE /\ insights' = [insights EXCEPT ![id] =
                  [@ EXCEPT !.coreInsight = IF coreInsight = Absent THEN @ ELSE coreInsight,
                            !.preview = IF preview = Absent THEN @ ELSE preview]]
            /\ Respond(s, r, 200)
    /\ UNCHANGED <<signals, thoughts, webhooks, now>>

\* ------------------------------------------- PATCH /api/insights, action publish
\* A publish check that only looks for the row.
HasContent_AnyRow(row) == TRUE

\* insight.preview || insight.coreInsight
HasContent(row) == Truthy(row.preview) \/ Truthy(row.coreInsight)

InsightsPATCH_Publish(s, id) ==
    /\ reqs[s].pc = "idle"
    /\ LET r == [NewTracked("publish") EXCEPT !.id = id] IN
       IF id = 0 \/ id \notin InsightIds \/ ~HasContent(insights[id])
       THEN /\ Respond(s, r, 400)
            /\ UNCHANGED insights
       ELSE /\ insights' = [insights EXCEPT ![id].status = "publishing"]
            /\ Continue(s, [r EXCEPT !.pc = "trigger"])
    /\ UNCHANGED <<signals, thoughts, webhooks, now>>

\* What a 2xx publish reply can carry: nothing, or a payload with a status
\* and a postUrl.
PublishReplies ==
    {<<>>} \cup {<<[status |-> st, postUrl |-> u]>> :
                    st \in {"success", "failed"}, u \in {None, "https://post/1"}}

\* result.data of triggerPublish: the reply body is never read, the result of
\* a 2xx reply is { success: true } alone.
PublishResultData(reply) == <<>>

InsightsPATCH_PublishTrigger(s) ==
    /\ reqs[s].op = "publish" /\ reqs[s].pc = "trigger"
    /\ \E t \in TriggerResults(WEBHOOK_NAMES.PUBLISH) :
       \E reply \in (IF Success(t.res) THEN PublishReplies ELSE {<<>>}) :
          Continue(s, [reqs[s] EXCEPT !.pc = "result", !.res = t.res, !.sent = t.sent,
                                      !.data = PublishResultData(reply),
                                      !.reply = reply])
    /\ UNCHANGED <<signals, thoughts, insights, webhooks, now>>

\* A publish route that leaves the row in publishing when the dispatch failed.
PublishFailureStatus_Stuck(row) == row.status

\* The status the route writes when the dispatch failed.
PublishFailureStatus(row) == "draft"

\* result.data && result.data.status === "success" && result.data.postUrl
SyncPublished(data) ==
    /\ data # <<>>
    /\ data[1].status = "success"
    /\ Truthy(data[1].postUrl)

\* The revert and the synchronous publish update a row by id: they throw, and
\* the route answers 500, when the row is gone.
InsightsPATCH_PublishResult(s) ==
    /\ reqs[s].op = "publish" /\ reqs[s].pc = "result"
    /\ LET r == reqs[s]
           id == r.id IN
       IF ~Success(r.res)
       THEN IF id \in InsightIds
            THEN /\ insights' =
                       [insights EXCEPT ![id].status = PublishFailureStatus(insights[id])]
                 /\ Respond(s, r, 502)
            ELSE /\ Respond(s, r, 500)
                 /\ UNCHANGED insights
       ELSE IF SyncPublished(r.data)
       THEN IF id \in InsightIds
            THEN /\ insights' = [insights EXCEPT ![id] =
                       [@ EXCEPT !.status = "published",
                                 !.publishedUrl = r.data[1].postUrl,
                                 !.publishedAt = <<now>>]]
                 /\ Respond(s, r, 200)
            ELSE /\ Respond(s, r, 500)
                 /\ UNCHANGED insights
       ELSE /\ Respond(s, r, 200)
            /\ UNCHANGED insights
    /\ UNCHANGED <<signals, thoughts, webhooks, now>>

\* ------------------------------------------------- POST /api/insights/confirm
\* A confirmation that keeps the preview when the publish failed.
ConfirmFailed_KeepPreview(row) == [row EXCEPT !.status = "draft"]

\* A confirmation that stores the status the callback carried.
ConfirmFailed_StoreGiven(row) == [row EXCEPT !.status = "failed", !.preview = None]

\* The row after a confirmation whose status is not "success".
ConfirmFailed(row) == [row EXCEPT !.status = "draft", !.preview = None]

\* The row after a confirmation with status "success": a postUrl left out is
\* not written.
ConfirmSuccess(row, postUrl) ==
    [row EXCEPT !.status = "published",
                !.publishedUrl = IF postUrl = Absent THEN @ ELSE postUrl,
                !.publishedAt = <<now>>]

ConfirmPOST(s, insightId, status, postUrl) ==
    /\ reqs[s].pc = "idle"
    /\ LET r == [NewTracked("confirm") EXCEPT !.id = insightId, !.data = status] IN
       IF insightId = 0 \/ ~Truthy(status)
       THEN /\ Respond(s, r, 400)
            /\ UNCHANGED insights
       ELSE IF insightId \notin InsightIds
       THEN /\ Respond(s, r, 404)
            /\ UNCHANGED insights
       ELSE /\ insights' = [insights EXCEPT ![insightId] =
                  IF status = "success" THEN ConfirmSuccess(@, postUrl)
                  ELSE ConfirmFailed(@)]
            /\ Respond(s, r, 200)
    /\ UNCHANGED <<signals, thoughts, webhooks, now>>

\* ------------------------------------------------- POST /api/insights/preview
\* An update that stores the preview text and the status only.
PreviewUpdate_KeepPlatform(row, preview, platform) ==
    [row EXCEPT !.preview = preview, !.status = "previewing"]

\* data: { preview, previewPlatform: body.platform, status: "previewing" }
PreviewUpdate(row, preview, platform) ==
    [row EXCEPT !.preview = preview, !.previewPlatform = platform,
                !.status = "previewing"]

PreviewPOST(s, insightId, preview, platform) ==
    /\ reqs[s].pc = "idle"
    /\ LET r == [NewTracked("preview") EXCEPT
                    !.id = insightId,
                    !.data = [preview |-> preview, platform |-> platform]] IN
       IF insightId = 0 \/ ~Truthy(preview) \/ ~Truthy(platform)
       THEN /\ Respond(s, r, 400)
            /\ UNCHANGED insights
       ELSE IF insightId \notin InsightIds
       THEN /\ Respond(s, r, 404)
            /\ UNCHANGED insights
       ELSE /\ insights' = [insights EXCEPT ![insightId] =
                  PreviewUpdate(@, preview, platform)]
            /\ Respond(s, r, 200)
    /\ UNCHANGED <<signals, thoughts, webhooks, now>>

\* --------------------------------------------- PATCH /api/insights, action format
\* The route looks the row up (404 when it is gone) and calls triggerFormat,
\* which returns not configured before any write, and otherwise sets the row
\* to formatting before it sends the request.
InsightsPATCH_Format(s, id) ==
    /\ reqs[s].pc = "idle"
    /\ LET r == [NewTracked("format") EXCEPT !.id = id] IN
       IF id = 0
       THEN /\ Respond(s, r, 400)
            /\ UNCHANGED insights
       ELSE IF id \notin InsightIds
       THEN /\ Respond(s, r, 404)
            /\ UNCHANGED insights
       ELSE IF getWebhookUrl(FORMAT_JOB) = None
       THEN /\ Respond(s, [r EXCEPT !.res = "not_configured"], 502)
            /\ UNCHANGED insights
       ELSE /\ insights' = [insights EXCEPT ![id].status = "formatting"]
            /\ Continue(s, [r EXCEPT !.pc = "fetch", !.sent = TRUE])
    /\ UNCHANGED <<signals, thoughts, webhooks, now>>

\* triggerFormat after its fetch: a non-2xx reply or a network error reverts
\* the row to draft (the update throws, and the route answers 500, when the
\* row is gone); the route answers 502 on a failed result.
InsightsPATCH_FormatResult(s) ==
    /\ reqs[s].op = "format" /\ reqs[s].pc = "fetch"
    /\ \E o \in FetchOutcomes :
       LET r == [reqs[s] EXCEPT !.res = o] IN
       IF Success(o)
       THEN /\ Respond(s, r, 200)
            /\ UNCHANGED insights
       ELSE IF r.id \in InsightIds
       THEN /\ insights' = [insights EXCEPT ![r.id].status = "draft"]
            /\ Respond(s, r, 502)
       ELSE /\ Respond(s, r, 500)
            /\ UNCHANGED insights
    /\ UNCHANGED <<signals, thoughts, webhooks, now>>

\* -------------------------------------------------------- DELETE /api/insights
\* A removal that takes the Thoughts of the Insight with it.
UnlinkThoughts_Cascade(ths, id) == SelectSeq(ths, LAMBDA t : t.insightId # id)

\* thought.updateMany({ where: { insightId: id }, data: { insightId: null } }),
\* and also what the foreign key's ON DELETE SET NULL does to the Thought table.
UnlinkThoughts(ths, id) ==
    [t \in DOMAIN ths |->
        IF ths[t].insightId = id THEN [ths[t] EXCEPT !.insightId = 0] ELSE ths[t]]

InsightsDELETE_Unlink(s, id) ==
    /\ reqs[s].pc = "idle"
    /\ LET r == [NewTracked("insight_delete") EXCEPT !.id = id] IN
       IF id = 0
       THEN /\ Respond(s, r, 400)
            /\ UNCHANGED thoughts
       ELSE /\ thoughts' = UnlinkThoughts(thoughts, id)
            /\ Continue(s, [r EXCEPT !.pc = "delete"])
    /\ UNCHANGED <<signals, insights, webhooks, now>>

\* insight.delete({ where: { id } }): throws when the row does not exist; the
\* store sets the insightId of the Thoughts that still reference it to null.
InsightsDELETE_Delete(s) ==
    /\ reqs[s].op = "insight_delete" /\ reqs[s].pc = "delete"
    /\ LET r == reqs[s] IN
       IF r.id \notin InsightIds
       THEN /\ Respond(s, r, 500)
            /\ UNCHANGED <<insights, thoughts>>
       ELSE /\ insights' = [insights EXCEPT ![r.id].live = FALSE]
            /\ thoughts' = UnlinkThoughts(thoughts, r.id)
            /\ Respond(s, r, 200)
    /\ UNCHANGED <<signals, webhooks, now>>

\* ----------------------------------------------------------------- /api/thoughts
\* POST: content is required; signalId and insightId are stored as given (0:
\* left out).  A reference to a row that does not exist violates the foreign
\* key: the create throws and the route answers 500.
ThoughtsPOST(s, content, signalId, insightId) ==
    /\ reqs[s].pc = "idle"
    /\ LET r == NewRequest("thought_create") IN
       IF ~Truthy(content)
       THEN /\ Respond(s, r, 400)
            /\ UNCHANGED thoughts
       ELSE IF \/ signalId # 0 /\ signalId \notin SignalIds
               \/ insightId # 0 /\ insightId \notin InsightIds
       THEN /\ Respond(s, r, 500)
            /\ UNCHANGED thoughts
       ELSE /\ Len(thoughts) < MaxThoughts
            /\ thoughts' = Append(thoughts, [signalId |-> signalId, insightId |-> insightId])
            /\ Respond(s, [r EXCEPT !.id = Len(thoughts) + 1], 201)
    /\ UNCHANGED <<signals, insights, webhooks, now>>

\* GET ?unlinked=true: where.insightId = null.
ThoughtsGET_Unlinked(ths) == {t \in DOMAIN ths : ths[t].insightId = 0}

\* ------------------------------------------- the trigger* functions, step by step
\* What the external engine can answer to one request: a network error, a
\* non-2xx status, or a 2xx status with an empty body, a body that is not
\* JSON, or a JSON body.
Reply(status, body, json) == [status |-> status, body |-> body, json |-> json]
NoReply == Reply("none", "none", ArrayBody(<<>>))

DispatchJsonBodies ==
    {ObjectBody([a |-> 1]), ObjectBody(WithOutput([b |-> 2], [a |-> 1])),
     ArrayBody(<<WithOutput([b |-> 2], [a |-> 1])>>), ArrayBody(<<>>)}

EngineReplies ==
    {Reply("network_error", "none", ArrayBody(<<>>)),
     Reply("non2xx", "text", ArrayBody(<<>>)),
     Reply("2xx", "empty", ArrayBody(<<>>)),
     Reply("2xx", "text", ArrayBody(<<>>))}
        \cup {Reply("2xx", "json", b) : b \in DispatchJsonBodies}

\* fetch rejects, !response.ok, or the reply is accepted.
ReplyOutcome(reply) ==
    IF reply.status = "network_error" THEN "network_error"
    ELSE IF reply.status = "non2xx" THEN "http_error"
    ELSE "ok"

\* triggerIngest's unwrapping of a parsed reply: a non-empty array is replaced
\* by its first element, then a value with an output key by that output.
IngestUnwrap(body) ==
    LET v == IF body.shape = "array" /\ Len(body.items) > 0 THEN body.items[1]
             ELSE IF body.shape = "array" THEN body.items
             ELSE body.obj IN
    IF "output" \in DOMAIN v THEN v["output"] ELSE v

\* Only triggerIngest arms an AbortController with WEBHOOK_TIMEOUT_MS.
HasTimeout(job) == job = WEBHOOK_NAMES.INGEST

\* result.data: <<>> when the result carries none, <<d>> for the data d.
\* Only triggerIngest reads the reply body; the other four return
\* { success: true } for every 2xx reply.
TriggerData(job, reply) ==
    IF job = WEBHOOK_NAMES.INGEST /\ ReplyOutcome(reply) = "ok" /\ reply.body = "json"
    THEN <<IngestUnwrap(reply.json)>>
    ELSE <<>>

\* A trigger* call up to its fetch.  Not configured: the failure result is
\* returned at once.  triggerFormat first sets the Insight `id` to formatting;
\* that update throws, and the call raises, when the row does not exist.
Trigger_Call(s, job, id) ==
    /\ reqs[s].pc = "idle"
    /\ LET r == [NewTracked("dispatch") EXCEPT
                    !.id = id, !.data = [job |-> job, reply |-> NoReply, out |-> <<>>]] IN
       IF getWebhookUrl(job) = None
       THEN /\ Respond(s, [r EXCEPT !.res = "not_configured"], 0)
            /\ UNCHANGED insights
       ELSE IF job # FORMAT_JOB
       THEN /\ Continue(s, [r EXCEPT !.pc = "fetch", !.sent = TRUE])
            /\ UNCHANGED insights
       ELSE IF id \notin InsightIds
       THEN /\ Respond(s, [r EXCEPT !.res = "raised"], 0)
            /\ UNCHANGED insights
       ELSE /\ insights' = [insights EXCEPT ![id].status = "formatting"]
            /\ Continue(s, [r EXCEPT !.pc = "fetch", !.sent = TRUE])
    /\ UNCHANGED <<signals, thoughts, webhooks, now>>

\* The engine answers and the call returns its result.  triggerFormat reverts
\* the Insight to draft in its catch block.
Trigger_Reply(s, reply) ==
    /\ reqs[s].op = "dispatch" /\ reqs[s].pc = "fetch"
    /\ LET job == reqs[s].data.job
           r == [reqs[s] EXCEPT !.res = ReplyOutcome(reply),
                                !.data = [job |-> job, reply |-> reply,
                                          out |-> TriggerData(job, reply)]] IN
       IF job = FORMAT_JOB /\ ~Success(ReplyOutcome(reply))
       THEN IF r.id \in InsightIds
            THEN /\ insights' = [insights EXCEPT ![r.id].status = "draft"]
                 /\ Respond(s, r, 0)
            ELSE /\ Respond(s, [r EXCEPT !.res = "raised"], 0)
                 /\ UNCHANGED insights
       ELSE /\ Respond(s, r, 0)
            /\ UNCHANGED insights
    /\ UNCHANGED <<signals, thoughts, webhooks, now>>

\* The AbortController fires before the engine has answered: the call returns
\* the timeout failure.
Trigger_Timeout(s) ==
    /\ reqs[s].op = "dispatch" /\ reqs[s].pc = "fetch"
    /\ HasTimeout(reqs[s].data.job)
    /\ Respond(s, [reqs[s] EXCEPT !.res = "timeout"], 0)
    /\ UNCHANGED <<signals, thoughts, insights, webhooks, now>>

\* ----------------------------------------------------------------- the clock
Tick ==
    /\ now < MaxClockTicks * TickMs
    /\ now' = now + TickMs
    /\ resp' = NoReq
    /\ UNCHANGED <<signals, thoughts, insights, webhooks, reqs>>

\* ------------------------------------------------------------ specifications
Init ==
    /\ signals = <<>>
    /\ thoughts = <<>>
    /\ insights = <<>>
    /\ webhooks = {}
    /\ now = 0
    /\ reqs = [s \in Slots |-> NoReq]
    /\ resp = NoReq

\* The Signal lifecycle routes, one request at a time: review, plain update,
\* cluster trigger, generate trigger, the receive callback that creates
\* Signals, and the registry entries of the two jobs they dispatch to.
LifecycleJobs == {WEBHOOK_NAMES.GENERATE, CLUSTER_JOB}
LifecyclePayloads ==
    {p \in Payloads : /\ p.summary = "s1" /\ p.key_insights = None /\ p.title = None
                      /\ p.content = None /\ p.sourceUrl = None /\ p.signalId = 0}
LifecycleBodies == {b \in PatchBodies : b.sourceUrl = None}

SignalNext ==
    \/ \E id \in {0} \cup SignalIdInputs, st \in {None} \cup StatusInputs :
          SignalsPATCH_Update(1, id, st, FALSE)
    \/ SignalsPATCH_Generate(1)
    \/ SignalsPATCH_Processed(1)
    \/ \E id \in SignalIdInputs, body \in LifecycleBodies : SignalByIdPATCH(1, id, body)
    \/ ClusterPOST_FindMany(1)
    \/ ClusterPOST_Trigger(1)
    \/ ClusterPOST_UpdateMany(1)
    \/ \E ids \in SUBSET SignalIdInputs : GeneratePOST_FindMany(1, ids)
    \/ GeneratePOST_Trigger(1)
    \/ GeneratePOST_Finish(1)
    \/ \E data \in LifecyclePayloads : ReceivePOST_Resolve(1, data)
    \/ ReceivePOST_Write(1)
    \/ \E name \in LifecycleJobs : SettingsWebhooksPOST(1, name, EngineUrl)
    \/ \E name \in LifecycleJobs : SettingsWebhooksDELETE(1, name)

SignalSpec == Init /\ [][SignalNext]_vars

\* The receive callback against placeholders: callbacks with and without an
\* identifier and a sourceUrl, plain updates that put a Signal into
\* processing, and the passing of time.
DedupPayloads ==
    {p \in Payloads : /\ p.summary = "s1" /\ p.key_insights = None /\ p.title = None
                      /\ p.content = None /\ p.signalId \in {0, 1}}
DedupBodies ==
    {b \in PatchBodies : b.sourceUrl = None /\ b.status = SIGNAL_STATUS.PROCESSING}

DedupNext ==
    \/ \E data \in DedupPayloads : ReceivePOST_Resolve(1, data)
    \/ ReceivePOST_Write(1)
    \/ \E id \in SignalIdInputs, body \in DedupBodies : SignalByIdPATCH(1, id, body)
    \/ Tick

DedupSpec == Init /\ [][DedupNext]_vars

\* The receive callback's validation: every combination of the fields it
\* looks at, with and without an identifier.
ValidationPayloads ==
    {p \in Payloads : p.sourceUrl = None /\ p.signalId \in {0, 1}}

ValidationNext ==
    \/ \E data \in ValidationPayloads : ReceivePOST_Resolve(1, data)
    \/ ReceivePOST_Write(1)

ValidationSpec == Init /\ [][ValidationNext]_vars

\* The Insight routes, one request at a time: creation, plain update, publish,
\* the preview and publish-confirm callbacks, and the registry entry of the
\* publish job.
CoreInputs == {Absent, "", "core"}
PreviewInputs == {Absent, None, "pv"}
PlatformInputs == {Absent, "linkedin"}
\* Request bodies that carry at most one of the two text fields.
InsightBodies ==
    {b \in [coreInsight : CoreInputs, preview : PreviewInputs] :
        b.coreInsight = Absent \/ b.preview = Absent}

InsightNext ==
    \/ \E b \in InsightBodies : InsightsPOST(1, b.coreInsight, b.preview, Absent, {})
    \/ \E id \in {0} \cup InsightIdInputs, b \in InsightBodies :
          InsightsPATCH_Update(1, id, b.coreInsight, b.preview)
    \/ \E id \in {0} \cup InsightIdInputs : InsightsPATCH_Publish(1, id)
    \/ InsightsPATCH_PublishTrigger(1)
    \/ InsightsPATCH_PublishResult(1)
    \/ \E id \in {0} \cup InsightIdInputs, st \in {Absent, "success", "failed"} :
          ConfirmPOST(1, id, st, "https://post/1")
    \/ \E id \in {0} \cup InsightIdInputs, pv \in {Absent, "pv"}, pl \in PlatformInputs :
          PreviewPOST(1, id, pv, pl)
    \/ SettingsWebhooksPOST(1, WEBHOOK_NAMES.PUBLISH, EngineUrl)
    \/ SettingsWebhooksDELETE(1, WEBHOOK_NAMES.PUBLISH)

InsightSpec == Init /\ [][InsightNext]_vars

\* The format action: creation, the preview and publish-confirm callbacks, the
\* format action and the registry entry of the format job.
FormatNext ==
    \/ InsightsPOST(1, "core", Absent, Absent, {})
    \/ \E id \in InsightIdInputs : PreviewPOST(1, id, "pv", "linkedin")
    \/ \E id \in InsightIdInputs : ConfirmPOST(1, id, "success", "https://post/1")
    \/ \E id \in {0} \cup InsightIdInputs : InsightsPATCH_Format(1, id)
    \/ InsightsPATCH_FormatResult(1)
    \/ SettingsWebhooksPOST(1, FORMAT_JOB, EngineUrl)
    \/ SettingsWebhooksDELETE(1, FORMAT_JOB)

FormatSpec == Init /\ [][FormatNext]_vars

\* The publish-confirm callback with and without a postUrl, on Insights that
\* were created and previewed, as time passes.
ConfirmNext ==
    \/ InsightsPOST(1, "core", Absent, Absent, {})
    \/ \E id \in InsightIdInputs, pv \in {Absent, "pv"} : PreviewPOST(1, id, pv, "linkedin")
    \/ \E id \in {0} \cup InsightIdInputs, st \in {Absent, "success", "failed"},
          u \in {Absent, "https://post/1"} : ConfirmPOST(1, id, st, u)
    \/ \E id \in InsightIdInputs, b \in InsightBodies :
          InsightsPATCH_Update(1, id, b.coreInsight, b.preview)
    \/ Tick

ConfirmSpec == Init /\ [][ConfirmNext]_vars

\* The normalizer of the receive route on every body of the three shapes.
NormalizeNext == \E body \in JsonBodies : ExtractN8nData_Call(1, body)

NormalizeSpec == Init /\ [][NormalizeNext]_vars

\* The five trigger* functions against the registry and the engine's replies.
DispatchNext ==
    \/ InsightsPOST(1, "core", Absent, Absent, {})
    \/ \E job \in JobNames, id \in InsightIdInputs : Trigger_Call(1, job, id)
    \/ \E reply \in EngineReplies : Trigger_Reply(1, reply)
    \/ Trigger_Timeout(1)
    \/ \E name \in JobNames : SettingsWebhooksPOST(1, name, EngineUrl)
    \/ \E name \in JobNames : SettingsWebhooksDELETE(1, name)

DispatchSpec == Init /\ [][DispatchNext]_vars

\* The same, with the one progress guarantee the code gives: an armed timer
\* fires.  Nothing obliges the engine to answer.
DispatchLiveSpec == DispatchSpec /\ WF_vars(Trigger_Timeout(1))

\* The preview callback with every kind of body, on Insights that are being
\* created, updated and confirmed.
PreviewNext ==
    \/ InsightsPOST(1, "core", Absent, Absent, {})
    \/ \E id \in {0} \cup InsightIdInputs, pv \in PreviewInputs,
          pl \in {Absent, "linkedin", "x"} : PreviewPOST(1, id, pv, pl)
    \/ \E id \in InsightIdInputs, b \in InsightBodies :
          InsightsPATCH_Update(1, id, b.coreInsight, b.preview)
    \/ \E id \in InsightIdInputs : ConfirmPOST(1, id, "success", "https://post/1")

PreviewSpec == Init /\ [][PreviewNext]_vars

\* Overlapping cluster triggers, with review actions and archiving going on
\* between a trigger's read and its batch update.
RaceSlots == {1, 2}
RaceBodies ==
    {b \in PatchBodies :
        /\ b.sourceUrl = None
        /\ b.status \in {SIGNAL_STATUS.REVIEWED, SIGNAL_STATUS.ARCHIVED}}

ClusterRaceNext ==
    \/ \E data \in LifecyclePayloads : ReceivePOST_Resolve(1, data)
    \/ ReceivePOST_Write(1)
    \/ SignalsPATCH_Update(2, 1, SIGNAL_STATUS.REVIEWED, FALSE)
    \/ \E id \in SignalIdInputs, body \in RaceBodies : SignalByIdPATCH(1, id, body)
    \/ SignalsPATCH_Generate(2)
    \/ SignalsPATCH_Processed(2)
    \/ \E s \in RaceSlots : ClusterPOST_FindMany(s)
    \/ \E s \in RaceSlots : ClusterPOST_Trigger(s)
    \/ \E s \in RaceSlots : ClusterPOST_UpdateMany(s)
    \/ SettingsWebhooksPOST(1, CLUSTER_JOB, EngineUrl)

ClusterRaceSpec == Init /\ [][ClusterRaceNext]_vars

\* The Insight lifecycle with requests overlapping: a format action and a
\* publish action in flight while the callbacks and plain updates arrive.
InsightRaceNext ==
    \/ InsightsPOST(1, "core", Absent, Absent, {})
    \/ InsightsPATCH_Update(2, 1, "core2", Absent)
    \/ InsightsPATCH_Format(1, 1)
    \/ InsightsPATCH_FormatResult(1)
    \/ InsightsPATCH_Publish(2, 1)
    \/ InsightsPATCH_PublishTrigger(2)
    \/ InsightsPATCH_PublishResult(2)
    \/ \E s \in RaceSlots : PreviewPOST(s, 1, "pv", "linkedin")
    \/ \E s \in RaceSlots, st \in {"success", "failed"} :
          ConfirmPOST(s, 1, st, "https://post/1")
    \/ \E name \in {FORMAT_JOB, WEBHOOK_NAMES.PUBLISH} :
          SettingsWebhooksPOST(1, name, EngineUrl)

InsightRaceSpec == Init /\ [][InsightRaceNext]_vars

\* Overlapping receive callbacks without identifier for one sourceUrl, on
\* Signals that plain updates put into processing.
ReceiveRacePayloads ==
    {p \in Payloads : /\ p.summary = "s1" /\ p.title = None /\ p.content = None
                      /\ p.sourceUrl = "u1" /\ p.signalId = 0}

ReceiveRaceNext ==
    \/ \E s \in RaceSlots, data \in ReceiveRacePayloads : ReceivePOST_Resolve(s, data)
    \/ \E s \in RaceSlots : ReceivePOST_Write(s)
    \/ \E id \in SignalIdInputs, body \in DedupBodies : SignalByIdPATCH(1, id, body)

ReceiveRaceSpec == Init /\ [][ReceiveRaceNext]_vars

\* Receive callbacks that name a Signal, on Signals in every status a plain
\* update can give them.
ResolvePayloads ==
    {p \in Payloads : /\ p.summary = "s1" /\ p.key_insights = None /\ p.title = None
                      /\ p.content = None /\ p.sourceUrl = None}

ResolveNext ==
    \/ \E data \in ResolvePayloads : ReceivePOST_Resolve(1, data)
    \/ ReceivePOST_Write(1)
    \/ \E id \in SignalIdInputs, body \in LifecycleBodies : SignalByIdPATCH(1, id, body)

ResolveSpec == Init /\ [][ResolveNext]_vars

\* The webhook registry under upserts and removes with every kind of input.
RegistryNext ==
    \/ \E name \in {None} \cup JobNames, url \in UrlInputs :
          SettingsWebhooksPOST(1, name, url)
    \/ \E name \in {None} \cup JobNames : SettingsWebhooksDELETE(1, name)

RegistrySpec == Init /\ [][RegistryNext]_vars

\* Thoughts and their parents: Signals from the receive callback, the review
\* action with a thought, thought creation (also while an Insight is being
\* deleted), Insight creation with linked Thoughts, Insight deletion.
ThoughtNext ==
    \/ \E data \in LifecyclePayloads : ReceivePOST_Resolve(1, data)
    \/ ReceivePOST_Write(1)
    \/ \E id \in SignalIdInputs : SignalsPATCH_Update(1, id, SIGNAL_STATUS.ARCHIVED, TRUE)
    \/ \E slot \in {1, 2}, c \in {Absent, "note"}, sid \in {0} \cup SignalIdInputs,
          iid \in {0} \cup InsightIdInputs : ThoughtsPOST(slot, c, sid, iid)
    \/ \E ths \in SUBSET (1..(MaxThoughts + 1)) : InsightsPOST(1, "core", Absent, Absent, ths)
    \/ \E id \in {0} \cup InsightIdInputs : InsightsDELETE_Unlink(1, id)
    \/ InsightsDELETE_Delete(1)

ThoughtSpec == Init /\ [][ThoughtNext]_vars

\* ===================================================================== claims
FailureResults == {"not_configured", "http_error", "network_error"}

Completed(op) == resp.op = op /\ resp.pc = "done"

\* C1: a 'mark reviewed' request whose generate dispatch fails (not configured,
\* non-2xx, network error) leaves the Signal in reviewed when it completes; it
\* never advances it to processed.
C1_FailedGenerateStaysReviewed ==
    (Completed("review") /\ resp.res \in FailureResults)
        => signals[resp.id].status = SIGNAL_STATUS.REVIEWED

\* C2: in every reachable state every stored Signal's status is one of unread,
\* processing, reviewed, processed, clustered, archived.
C2_StatusInEnum ==
    \A i \in SignalIds : signals[i].status \in SignalStatuses

\* C3: a cluster trigger that found N >= 1 reviewed Signals and whose dispatch
\* succeeded leaves exactly those N Signals clustered and every other Signal
\* (and every other field) as it was before the request.
C3_ClusterMarksExactlyReviewed ==
    (Completed("cluster") /\ Success(resp.res)) =>
        /\ resp.ids # {}
        /\ resp.ids = {i \in DOMAIN resp.pre.signals :
                          resp.pre.signals[i].status = SIGNAL_STATUS.REVIEWED}
        /\ DOMAIN signals = DOMAIN resp.pre.signals
        /\ \A i \in SignalIds :
              signals[i] = IF i \in resp.ids
                           THEN [resp.pre.signals[i] EXCEPT !.status = "clustered"]
                           ELSE resp.pre.signals[i]

\* C3 witness: a successful cluster trigger with a reviewed Signal and another
\* Signal that is not reviewed.
C3_Witness ==
    /\ Completed("cluster") /\ Success(resp.res) /\ resp.code = 200
    /\ \E i, j \in SignalIds :
          /\ resp.pre.signals[i].status = SIGNAL_STATUS.REVIEWED
          /\ signals[i].status = "clustered"
          /\ resp.pre.signals[j].status = SIGNAL_STATUS.UNREAD

\* C4: a cluster trigger or a generate trigger whose dispatch fails answers 502
\* and leaves every Signal as it was before the request.
C4_FailedDispatchIs502AndMutatesNothing ==
    ((Completed("cluster") \/ Completed("generate")) /\ resp.res \in FailureResults) =>
        /\ resp.code = 502
        /\ signals = resp.pre.signals

\* C4 witness: a cluster trigger that sent its request, got a failure, and
\* answered 502 while reviewed Signals were waiting.
C4_Witness ==
    /\ Completed("cluster") /\ resp.res = "http_error" /\ resp.sent /\ resp.code = 502
    /\ \E i \in SignalIds : signals[i].status = SIGNAL_STATUS.REVIEWED

\* C5: a cluster trigger issued while no Signal is in reviewed answers success,
\* sends nothing to the external engine, and leaves the store unchanged.
C5_EmptyClusterIsNoOp ==
    (/\ Completed("cluster")
     /\ \A i \in DOMAIN resp.pre.signals :
           resp.pre.signals[i].status # SIGNAL_STATUS.REVIEWED) =>
        /\ resp.code = 200
        /\ ~resp.sent /\ resp.res = "none"
        /\ Store = resp.pre

\* C5 witness: the no-op answer with Signals stored and the cluster webhook
\* registered.
C5_Witness ==
    /\ Completed("cluster") /\ resp.ids = {} /\ resp.code = 200
    /\ signals # <<>>
    /\ getWebhookUrl(CLUSTER_JOB) # None

\* The placeholders of the table `sigs` that carry the sourceUrl `url`, and
\* those of them created no more than ten minutes before `at`.
PlaceholdersFor(sigs, url) ==
    {i \in DOMAIN sigs : sigs[i].status = "processing" /\ sigs[i].sourceUrl = url}
FreshFor(sigs, url, at) ==
    {i \in PlaceholdersFor(sigs, url) : at - sigs[i].createdAt <= 10 * 60 * 1000}

\* C6: a receive callback without identifier whose sourceUrl is that of a
\* placeholder in processing: when a placeholder created within the last 10
\* minutes carries that sourceUrl, the callback updates that record (same id,
\* no Signal created) and sets it to unread; when the placeholders with that
\* sourceUrl are all older than 10 minutes, none is touched and a new Signal is
\* created in unread.
C6_DedupWithinTenMinutes ==
    (/\ Completed("receive") /\ resp.code # 400
     /\ resp.data.signalId = 0 /\ resp.data.sourceUrl # None
     /\ PlaceholdersFor(resp.pre.signals, resp.data.sourceUrl) # {}) =>
        LET before == resp.pre.signals
            fresh == FreshFor(before, resp.data.sourceUrl, resp.at) IN
        /\ resp.code = 201
        /\ IF fresh # {}
           THEN /\ resp.id \in fresh
                /\ \A j \in fresh : before[j].createdAt <= before[resp.id].createdAt
                /\ Len(signals) = Len(before)
                /\ signals[resp.id] =
                      [before[resp.id] EXCEPT !.status = "unread",
                                              !.content = ContentOf(resp.data)]
                /\ \A j \in DOMAIN before : j # resp.id => signals[j] = before[j]
           ELSE /\ resp.id = 0
                /\ Len(signals) = Len(before) + 1
                /\ signals[Len(signals)].status = "unread"
                /\ signals[Len(signals)].sourceUrl = resp.data.sourceUrl
                /\ \A j \in DOMAIN before : signals[j] = before[j]

\* C6 witness: a callback has just updated the placeholder created within the
\* window while an older placeholder with the same sourceUrl, created more
\* than ten minutes before, is left in processing.
C6_Witness ==
    /\ Completed("receive") /\ resp.code = 201
    /\ resp.data.signalId = 0 /\ resp.data.sourceUrl # None
    /\ resp.id # 0
    /\ resp.pre.signals[resp.id].status = "processing"
    /\ signals[resp.id].status = "unread"
    /\ \E j \in SignalIds :
          /\ j # resp.id
          /\ signals[j].status = "processing"
          /\ signals[j].sourceUrl = resp.data.sourceUrl
          /\ resp.at - signals[j].createdAt > 10 * 60 * 1000

\* C7: a receive callback whose normalized payload carries none of summary,
\* key_insights and title is answered 400 and neither creates nor modifies
\* any Signal.
C7_MissingFieldsRejected ==
    (/\ Completed("receive")
     /\ resp.data.summary = None /\ resp.data.key_insights = None
     /\ resp.data.title = None) =>
        /\ resp.code = 400
        /\ Store = resp.pre

\* C7 witness: a rejected payload that names a stored Signal and carries a
\* content other than the stored one, but none of the three fields.
C7_Witness ==
    /\ Completed("receive") /\ resp.code = 400
    /\ resp.data.signalId \in SignalIds
    /\ resp.data.content # None
    /\ signals[resp.data.signalId].content # resp.data.content

\* C8: a publish action on an Insight with neither preview nor core-insight
\* text is answered 400 before any publish dispatch, and leaves the Insight's
\* status (and the rest of the store) unchanged.
C8_PublishWithoutContentRejected ==
    (/\ Completed("publish")
     /\ resp.id \in DOMAIN resp.pre.insights
     /\ resp.pre.insights[resp.id].live
     /\ ~Truthy(resp.pre.insights[resp.id].preview)
     /\ ~Truthy(resp.pre.insights[resp.id].coreInsight)) =>
        /\ resp.code = 400
        /\ ~resp.sent /\ resp.res = "none"
        /\ Store = resp.pre

\* C8 witness: the 400 answer for a stored Insight without any text, with the
\* publish webhook registered.
C8_Witness ==
    /\ Completed("publish") /\ resp.code = 400
    /\ resp.id \in InsightIds
    /\ ~Truthy(insights[resp.id].preview) /\ ~Truthy(insights[resp.id].coreInsight)
    /\ getWebhookUrl(WEBHOOK_NAMES.PUBLISH) # None

\* C9: when the publish dispatch fails (not configured, non-2xx, network error)
\* the Insight is in draft when the publish request completes, and its preview
\* is the one it had before the request.
C9_FailedPublishRevertsToDraft ==
    (Completed("publish") /\ resp.res \in FailureResults) =>
        /\ resp.code = 502
        /\ insights[resp.id].status = "draft"
        /\ insights[resp.id].preview = resp.pre.insights[resp.id].preview

\* C9 witness: a publish request that sent its dispatch, got a failure, and
\* left a previewing Insight in draft with its preview.
C9_Witness ==
    /\ Completed("publish") /\ resp.res = "http_error" /\ resp.sent
    /\ resp.pre.insights[resp.id].status = "previewing"
    /\ insights[resp.id].status = "draft"
    /\ insights[resp.id].preview = "pv"

\* C10: a publish-confirm callback with status failed for an existing Insight
\* sets its status to draft and its preview to none, whatever its status was.
C10_ConfirmFailedClearsPreview ==
    (/\ Completed("confirm") /\ resp.data = "failed"
     /\ resp.id \in DOMAIN resp.pre.insights
     /\ resp.pre.insights[resp.id].live) =>
        /\ insights[resp.id].status = "draft"
        /\ insights[resp.id].preview = None
        /\ insights[resp.id] =
              [resp.pre.insights[resp.id] EXCEPT !.status = "draft", !.preview = None]

\* C10 witness: a failed confirmation that took a published Insight with a
\* preview back to draft.
C10_Witness ==
    /\ Completed("confirm") /\ resp.data = "failed"
    /\ resp.id \in InsightIds
    /\ resp.pre.insights[resp.id].status = "published"
    /\ Truthy(resp.pre.insights[resp.id].preview)
    /\ insights[resp.id].status = "draft" /\ insights[resp.id].preview = None

\* C11: a format action on a stored Insight whose dispatch fails (network
\* error, non-2xx reply, format webhook not configured) leaves the Insight in
\* draft when the request completes.
C11_FailedFormatEndsInDraft ==
    (/\ Completed("format") /\ resp.res \in FailureResults
     /\ resp.id \in InsightIds) =>
        insights[resp.id].status = "draft"

\* The request that completed in this step recorded a successful publish of
\* Insight i: a confirmation with status success, or a publish request whose
\* dispatch succeeded with a synchronous success reply.
RecordsPublish(i) ==
    /\ resp'.pc = "done" /\ resp'.id = i
    /\ \/ resp'.op = "confirm" /\ resp'.data = "success"
       \/ resp'.op = "publish" /\ Success(resp'.res) /\ resp'.data # <<>>

\* C12: in every reachable state each Insight has publishedUrl set if and
\* only if publishedAt is set, and a step changes either field of an Insight
\* only when it records a successful publish of that Insight.
C12_PublishedFieldsSetTogether ==
    /\ [](\A i \in InsightIds :
            (insights[i].publishedUrl # None) <=> (insights[i].publishedAt # <<>>))
    /\ [][\A i \in DOMAIN insights :
            (/\ i \in DOMAIN insights'
             /\ \/ insights'[i].publishedUrl # insights[i].publishedUrl
                \/ insights'[i].publishedAt # insights[i].publishedAt)
            => RecordsPublish(i)]_vars

\* The reference algorithm of the normalizer: an array is replaced by its
\* first element (the empty record when it has none); then an object with an
\* output field becomes the outer fields merged with the output's fields,
\* output winning.
ReferenceCanonical(body) ==
    LET v == IF body.shape = "array"
             THEN (IF Len(body.items) > 0 THEN body.items[1] ELSE <<>>)
             ELSE body.obj IN
    IF "output" \in DOMAIN v
    THEN [k \in (DOMAIN v \ {"output"}) \cup DOMAIN v["output"] |->
             IF k \in DOMAIN v["output"] THEN v["output"][k] ELSE v[k]]
    ELSE v

SameRecord(x, y) == DOMAIN x = DOMAIN y /\ \A k \in DOMAIN x : x[k] = y[k]

\* C13: for every body of the three reply shapes the normalizer's result
\* equals the reference algorithm's.
C13_NormalizerMatchesReference ==
    Completed("extract") =>
        SameRecord(resp.data.out, ReferenceCanonical(resp.data.body))

\* C14: for each of the five jobs, a dispatch made while no webhook URL is
\* registered under the job's name returns success=false with the
\* not-configured error and sends no HTTP request.
C14_NotConfiguredSendsNothing ==
    (Completed("dispatch") /\ UrlIn(resp.pre.webhooks, resp.data.job) = None) =>
        /\ ~Success(resp.res) /\ resp.res = "not_configured"
        /\ ~resp.sent
        /\ resp.data.reply = NoReply
        /\ Store = resp.pre

\* C14 witness: the not-configured result of a format dispatch for a stored
\* Insight, while another job is registered.
C14_Witness ==
    /\ Completed("dispatch") /\ resp.res = "not_configured"
    /\ resp.data.job = FORMAT_JOB /\ resp.id \in InsightIds
    /\ webhooks # {}

\* C15: the dispatcher classifies every reply: a non-2xx status gives
\* success=false; a 2xx reply with an empty or unparseable body gives
\* success=true with no data; a 2xx reply with a parseable JSON body gives
\* success=true with the canonical data; no reply makes the call raise.
C15_RepliesClassified ==
    (Completed("dispatch") /\ resp.sent /\ resp.res # "timeout") =>
        LET reply == resp.data.reply
            out == resp.data.out IN
        /\ resp.res # "raised"
        /\ reply.status = "non2xx" => ~Success(resp.res)
        /\ (reply.status = "2xx" /\ reply.body \in {"empty", "text"}) =>
              (Success(resp.res) /\ out = <<>>)
        /\ (reply.status = "2xx" /\ reply.body = "json") =>
              /\ Success(resp.res)
              /\ out # <<>>
              /\ SameRecord(out[1], ReferenceCanonical(reply.json))

\* C20: every dispatch call that has sent its request eventually returns a
\* result to its caller, whether or not the engine ever replies.
C20_DispatchEventuallyReturns ==
    (reqs[1].op = "dispatch" /\ reqs[1].pc = "fetch") ~> (reqs[1].pc = "idle")

\* C16: deleting an Insight never deletes a Thought: no Thought ever
\* references a deleted Insight, and when the deletion completes every Thought
\* that referenced the Insight still exists, with its insightId none, and is
\* returned by the unlinked-thoughts query.
C16_DeleteUnlinksThoughts ==
    /\ \A t \in DOMAIN thoughts :
          thoughts[t].insightId # 0 => thoughts[t].insightId \in InsightIds
    /\ (Completed("insight_delete") /\ resp.code = 200) =>
          /\ resp.id \notin InsightIds
          /\ Len(thoughts) >= Len(resp.pre.thoughts)
          /\ \A t \in DOMAIN resp.pre.thoughts :
                resp.pre.thoughts[t].insightId = resp.id =>
                   /\ t \in ThoughtsGET_Unlinked(thoughts)
                   /\ thoughts[t] = [resp.pre.thoughts[t] EXCEPT !.insightId = 0]

\* C16 witness: a deletion has completed for an Insight that a Thought
\* referenced when the request began.
C16_Witness ==
    /\ Completed("insight_delete") /\ resp.code = 200
    /\ \E t \in DOMAIN resp.pre.thoughts :
          /\ resp.pre.thoughts[t].insightId = resp.id
          /\ thoughts[t].insightId = 0

\* C17: in every reachable state no Thought has both a Signal reference and
\* an Insight reference.
C17_AtMostOneParent ==
    \A t \in DOMAIN thoughts : thoughts[t].signalId = 0 \/ thoughts[t].insightId = 0

\* A well-formed absolute URL, as the claim understands it.
WellFormedAbsolute(url) == url \in {EngineUrl, "https://n8n.example/other"}

\* C18: an upsert with a missing name, a missing URL or a URL that is not a
\* well-formed absolute URL answers with a validation error and leaves the
\* registry as it was; in every reachable state the registry holds at most
\* one entry per name and every stored URL is well-formed.
C18_RegistryValidated ==
    /\ Completed("webhook_upsert") =>
          ((\/ resp.data.name = None
            \/ resp.data.url = None
            \/ ~WellFormedAbsolute(resp.data.url))
             => (resp.code = 400 /\ webhooks = resp.pre.webhooks))
    /\ \A w1, w2 \in webhooks : w1.name = w2.name => w1 = w2
    /\ \A w \in webhooks : WellFormedAbsolute(w.url)

\* C18 witness: an upsert with a malformed URL for a registered name has been
\* refused while the registry holds entries.
C18_Witness ==
    /\ Completed("webhook_upsert")
    /\ resp.code = 400
    /\ resp.data.url = "hook"
    /\ UrlIn(webhooks, resp.data.name) # None

\* C19: when a publish request completes after a successful dispatch whose
\* reply was a success payload with a post URL, the Insight is published with
\* publishedUrl equal to that URL and publishedAt set.
C19_SyncSuccessPublishes ==
    (/\ Completed("publish")
     /\ Success(resp.res)
     /\ resp.reply # <<>>
     /\ resp.reply[1].status = "success"
     /\ Truthy(resp.reply[1].postUrl)
     /\ resp.id \in InsightIds)
    => /\ insights[resp.id].status = "published"
       /\ insights[resp.id].publishedUrl = resp.reply[1].postUrl
       /\ insights[resp.id].publishedAt # <<>>

\* C21: a preview callback with insightId, preview and platform for a stored
\* Insight sets that Insight's preview, preview platform and status
\* previewing and answers 200; a callback that lacks a field (400) or names
\* no stored Insight (404) changes no Insight.
C21_PreviewCallback ==
    Completed("preview") =>
       LET complete == /\ resp.id # 0
                       /\ Truthy(resp.data.preview)
                       /\ Truthy(resp.data.platform)
           known == resp.id \in DOMAIN resp.pre.insights /\ resp.pre.insights[resp.id].live
       IN /\ ~complete => (resp.code = 400 /\ insights = resp.pre.insights)
          /\ (complete /\ ~known) => (resp.code = 404 /\ insights = resp.pre.insights)
          /\ (complete /\ known) =>
                /\ resp.code = 200
                /\ insights[resp.id].preview = resp.data.preview
                /\ insights[resp.id].previewPlatform = resp.data.platform
                /\ insights[resp.id].status = "previewing"

\* C21 witness: a complete callback has been accepted for an Insight that was
\* not previewing and had another preview text and another platform.
C21_Witness ==
    /\ Completed("preview") /\ resp.code = 200
    /\ resp.pre.insights[resp.id].status # "previewing"
    /\ resp.pre.insights[resp.id].preview # resp.data.preview
    /\ resp.pre.insights[resp.id].previewPlatform # resp.data.platform

\* A cluster request in slot s that has read and not yet answered.
ClusterInFlight(s) == reqs[s].op = "cluster" /\ reqs[s].pc \in {"trigger", "result"}

\* C22: nothing keeps a cluster trigger from reading Signals that another
\* trigger in flight has read: every cluster request in flight carries exactly
\* the Signals that were reviewed when it read, and what it has sent is that
\* set, so two overlapping triggers can send the same Signal twice.
C22_ReadIgnoresOtherTrigger ==
    \A s \in Slots :
       ClusterInFlight(s) =>
          reqs[s].ids = {i \in DOMAIN reqs[s].pre.signals :
                            reqs[s].pre.signals[i].status = SIGNAL_STATUS.REVIEWED}

\* C22 witness: two cluster triggers have both sent their request with
\* success, each before the other's batch update, and a Signal is in both.
C22_Witness ==
    /\ \A s \in RaceSlots :
          /\ ClusterInFlight(s) /\ reqs[s].pc = "result"
          /\ reqs[s].sent /\ Success(reqs[s].res)
    /\ reqs[1].ids \cap reqs[2].ids # {}
    /\ \A i \in reqs[1].ids \cap reqs[2].ids :
          signals[i].status = SIGNAL_STATUS.REVIEWED

\* C28: a cluster trigger's batch update sets to clustered only Signals that
\* are in reviewed at the time of the update.
C28_BatchUpdateOnlyReviewed ==
    [][resp'.op = "cluster" =>
          \A i \in DOMAIN signals :
             (signals'[i].status = CLUSTERED /\ signals[i].status # CLUSTERED)
                => signals[i].status = SIGNAL_STATUS.REVIEWED]_vars

\* The JSON values of the flat, output-nested and array-of-one shapes.
ThreeShapes(body) == body.shape = "object" \/ Len(body.items) = 1

\* C23: the data the ingest dispatcher returns for a parseable 2xx reply of
\* one of the three shapes is the record extractN8nData produces for the
\* same JSON value.
C23_DispatcherUsesNormalizer ==
    (/\ Completed("dispatch")
     /\ resp.data.job = WEBHOOK_NAMES.INGEST
     /\ resp.data.reply.status = "2xx" /\ resp.data.reply.body = "json"
     /\ ThreeShapes(resp.data.reply.json))
    => /\ resp.data.out # <<>>
       /\ SameRecord(resp.data.out[1], extractN8nData(resp.data.reply.json))

\* C24: a 'mark reviewed' request for a Signal that is in processed when the
\* request arrives sends nothing to the generate job.
C24_ProcessedNotResent ==
    (/\ Completed("review")
     /\ resp.id \in DOMAIN resp.pre.signals
     /\ resp.pre.signals[resp.id].status = SIGNAL_STATUS.PROCESSED)
    => ~resp.sent

\* The five statuses of the Insight state machine.
InsightStatuses == {"draft", "formatting", "previewing", "publishing", "published"}

\* C25: in every reachable state every stored Insight's status is one of
\* draft, formatting, previewing, publishing, published.
C25_InsightStatusInEnum ==
    \A i \in InsightIds : insights[i].status \in InsightStatuses

\* C25 witness: a publish-confirm callback with status failed has been
\* processed for an Insight whose format action is still in flight.
C25_Witness ==
    /\ Completed("confirm") /\ resp.data = "failed" /\ resp.code = 200
    /\ reqs[1].op = "format" /\ reqs[1].pc = "fetch" /\ reqs[1].id = resp.id
    /\ resp.pre.insights[resp.id].status = "formatting"

\* C26: when a format request that has sent its dispatch completes for an
\* Insight that a preview callback has meanwhile put into previewing, the
\* Insight is still previewing afterwards.
C26_FormatKeepsPreviewing ==
    [][\A s \in Slots :
          (/\ reqs[s].op = "format" /\ reqs[s].pc = "fetch"
           /\ reqs'[s].pc = "idle"
           /\ reqs[s].id \in InsightIds
           /\ insights[reqs[s].id].status = "previewing")
          => insights'[reqs[s].id].status = "previewing"]_vars

\* C27: when a publish request that has sent its dispatch completes for an
\* Insight that a publish-confirm callback has meanwhile published, the
\* Insight is still published afterwards.
C27_PublishKeepsPublished ==
    [][\A s \in Slots :
          (/\ reqs[s].op = "publish" /\ reqs[s].pc = "result" /\ reqs[s].sent
           /\ reqs'[s].pc = "idle"
           /\ reqs[s].id \in InsightIds
           /\ insights[reqs[s].id].status = "published")
          => insights'[reqs[s].id].status = "published"]_vars

\* The callback in slot s carried no identifier, matched the placeholder
\* reqs[s].id by its sourceUrl, and writes it in this step.
DedupWrite(s) ==
    /\ reqs[s].op = "receive" /\ reqs[s].pc = "write"
    /\ reqs[s].data.signalId = 0 /\ reqs[s].id \in SignalIds
    /\ reqs'[s].pc = "idle"

\* C29: a placeholder is consumed by at most one callback: when a callback
\* without identifier writes the placeholder it matched, the placeholder
\* still has the content it had when it was matched, so no other callback's
\* content is overwritten.
C29_PlaceholderConsumedOnce ==
    [][\A s \in Slots :
          DedupWrite(s) =>
             signals[reqs[s].id].content = reqs[s].pre.signals[reqs[s].id].content]_vars

\* C30: a callback that resolves by explicit identifier to a Signal that is
\* not in processing leaves that Signal's status as it was.
C30_OnlyProcessingChangesStatus ==
    [][\A s \in Slots :
          (/\ reqs[s].op = "receive" /\ reqs[s].pc = "write"
           /\ reqs[s].data.signalId # 0 /\ reqs[s].id \in SignalIds
           /\ reqs'[s].pc = "idle"
           /\ signals[reqs[s].id].status # "processing")
          => signals'[reqs[s].id].status = signals[reqs[s].id].status]_vars

====
